---- MODULE Spec2Model ----
(***************************************************************************)
(* Model of src/json.rs of Moonfire NVR: the JSON view types of the HTTP   *)
(* API (TopLevel, Session, Camera, Stream, StreamDayValue, ListRecordings, *)
(* Recording) and their custom serde serializers.                          *)
(*                                                                         *)
(* Option<T> is modelled as a sequence: None is << >>, Some(x) is <<x>>.   *)
(* A value handed to the serde Serializer is a tagged tuple; a map or a    *)
(* struct is the ordered sequence of its [k, v] entries as they were       *)
(* emitted, so key order and key presence are both observable.             *)
(***************************************************************************)
EXTENDS Integers, Sequences, FiniteSets, TLC

\* ------------------------------------------------------------------ bounds
MaxCameras == 2
MaxStreamId == 2
MaxDays == 4
MaxRecordings == 2

\* --------------------------------------------------------------- Option<T>
None == << >>
Some(x) == <<x>>
IsSome(o) == Len(o) = 1
IsNone(o) == Len(o) = 0
Unwrap(o) == o[1]

\* ------------------------------------------------- serde data model values
JNull == <<"null">>
JInt(i) == <<"int", i>>
JStr(s) == <<"str", s>>
JBool(b) == <<"bool", b>>
JMap(entries) == <<"map", entries>>
JSeq(elems) == <<"seq", elems>>
Entry(key, val) == [k |-> key, v |-> val]

IsMap(j) == j[1] = "map"
IsSeq(j) == j[1] = "seq"
Entries(j) == j[2]
Elems(j) == j[2]
Keys(j) == [i \in 1..Len(Entries(j)) |-> Entries(j)[i].k]
HasKey(j, key) == \E i \in 1..Len(Entries(j)) : Entries(j)[i].k = key
Get(j, key) == Entries(j)[CHOOSE i \in 1..Len(Entries(j)) : Entries(j)[i].k = key].v

\* ---------------------------------------------------- ordered collections
RECURSIVE SortedSeq(_)
\* Iteration order of a BTreeMap / BTreeSet over integer keys: ascending.
SortedSeq(S) ==
  IF S = {} THEN << >>
  ELSE LET m == CHOOSE x \in S : \A y \in S : x <= y
       IN <<m>> \o SortedSeq(S \ {m})

\* -------------------------------------------------------- Result<T, Error>
Ok(x) == [ok |-> TRUE, val |-> x]
Err(e) == [ok |-> FALSE, err |-> e]

\* --------------------------------------------- collaborators (crate `db`)
\* db::StreamDayKey: a calendar day; keys order chronologically.
DayKeys == 1..MaxDays
\* Length of one day in the model's time units.
DayLength90k == 10
\* StreamDayKey::as_ref: the key's canonical string form.
DayKeyAsRef(k) == <<"day", k>>
\* StreamDayKey::bounds: the [start, end) times of the day.
DayKeyBounds(k) == [start |-> k * DayLength90k, end |-> (k + 1) * DayLength90k]
\* db::StreamType::from_index: Some for the two stream types, None otherwise.
StreamTypeFromIndex(i) == IF i = 0 THEN Some("MAIN") ELSE IF i = 1 THEN Some("SUB") ELSE None
\* db::StreamType::as_str
StreamTypeAsStr(t) == IF t = "MAIN" THEN "main" ELSE "sub"
\* SessionHash::encode_base64: an injective text encoding of the hash.
EncodeBase64(h) == <<"base64", h>>

\* ------------------------------------------------------------ the inputs
CameraIds == 1..MaxCameras
StreamIds == 1..MaxStreamId
\* The two stream slots of a camera, `[Option<i32>; 2]`.
Slots == 0..1

\* All day maps: BTreeMap<StreamDayKey, StreamDayValue> with any key set.
DayDurations == {3, 7}
DayMaps ==
  UNION { [ks -> [duration : DayDurations]] : ks \in SUBSET DayKeys }

\* A stream without recordings, and one with a recording on every day.
EmptyDays == [k \in {} |-> [duration |-> 3]]
FullDays == [k \in DayKeys |-> [duration |-> 3]]
DbStream(id, days) ==
  [ retain_bytes |-> 1000 + id,
    range |-> IF DOMAIN days = {} THEN None
              ELSE Some([start |-> DayKeyBounds(1).start + 1,
                         end |-> DayKeyBounds(MaxDays).end - 1]),
    duration |-> 3 * Cardinality(DOMAIN days),
    sample_file_bytes |-> 100 * Cardinality(DOMAIN days),
    days |-> days ]
\* db.streams_by_id(): any set of stream ids, each empty or recorded.
StreamIndexes ==
  UNION { { [id \in ids |-> DbStream(id, d[id])] : d \in [ids -> {EmptyDays, FullDays}] }
          : ids \in SUBSET StreamIds }

\* db::Camera: the fields json.rs reads.
DbCamera(id, s0, s1) ==
  [ uuid |-> <<"uuid", id>>,
    short_name |-> <<"name", id>>,
    description |-> <<"description", id>>,
    streams |-> [i \in Slots |-> IF i = 0 THEN s0 ELSE s1] ]
OptStreamIds == {None} \cup { Some(id) : id \in StreamIds }
\* A stream belongs to one camera and one slot: no id is referenced twice.
NoSharedStream(cs) ==
  \A c1, c2 \in DOMAIN cs : \A i1, i2 \in Slots :
    (IsSome(cs[c1].streams[i1]) /\ cs[c1].streams[i1] = cs[c2].streams[i2])
      => (c1 = c2 /\ i1 = i2)
\* db.cameras_by_id(): any set of camera ids.
CameraMaps ==
  UNION { { cs \in { [id \in ids |-> DbCamera(id, s[id][1], s[id][2])]
                     : s \in [ids -> OptStreamIds \X OptStreamIds] }
            : NoSharedStream(cs) }
          : ids \in SUBSET CameraIds }

Sessions ==
  {None, Some([username |-> "alice", csrf |-> 1]), Some([username |-> "bob", csrf |-> 2])}

\* ------------------------------------------------ Stream (json.rs 83-159)
\* serialize_days over a map iterated in descending key order.
SerializeDays_Descending(days) ==
  IF IsNone(days) THEN JNull
  ELSE LET d == Unwrap(days)
           ks == SortedSeq(DOMAIN d)
           n == Len(ks)
       IN JMap([i \in 1..n |->
                 Entry(DayKeyAsRef(ks[n + 1 - i]),
                       JMap(<< Entry("startTime90k", JInt(DayKeyBounds(ks[n + 1 - i]).start)),
                               Entry("endTime90k", JInt(DayKeyBounds(ks[n + 1 - i]).end)),
                               Entry("totalDuration90k", JInt(d[ks[n + 1 - i]].duration)) >>))])

\* Stream::serialize_days
SerializeDays(days) ==
  IF IsNone(days) THEN JNull
  ELSE LET d == Unwrap(days)
           ks == SortedSeq(DOMAIN d)
       IN JMap([i \in 1..Len(ks) |->
                 Entry(DayKeyAsRef(ks[i]),
                       JMap(<< Entry("startTime90k", JInt(DayKeyBounds(ks[i]).start)),
                               Entry("endTime90k", JInt(DayKeyBounds(ks[i]).end)),
                               Entry("totalDuration90k", JInt(d[ks[i]].duration)) >>))])

\* Serialization of Option<i64> by serde: None is a null, Some(x) is x.
SerializeOptInt(o) == IF IsNone(o) THEN JNull ELSE JInt(Unwrap(o))

\* Stream's derive without skip_serializing_if on days: a None is handed to
\* serialize_days and comes out as a null.
SerializeStream_DaysNotSkipped(s) ==
  JMap(<< Entry("retainBytes", JInt(s.retain_bytes)),
          Entry("minStartTime90k", SerializeOptInt(s.min_start_time_90k)),
          Entry("maxEndTime90k", SerializeOptInt(s.max_end_time_90k)),
          Entry("totalDuration90k", JInt(s.total_duration_90k)),
          Entry("totalSampleFileBytes", JInt(s.total_sample_file_bytes)),
          Entry("days", SerializeDays(s.days)) >>)

\* #[derive(Serialize)] for Stream.
SerializeStream(s) ==
  JMap(<< Entry("retainBytes", JInt(s.retain_bytes)),
          Entry("minStartTime90k", SerializeOptInt(s.min_start_time_90k)),
          Entry("maxEndTime90k", SerializeOptInt(s.max_end_time_90k)),
          Entry("totalDuration90k", JInt(s.total_duration_90k)),
          Entry("totalSampleFileBytes", JInt(s.total_sample_file_bytes)) >>
       \o (IF IsNone(s.days) THEN << >>
           ELSE << Entry("days", SerializeDays(s.days)) >>))

\* Stream::wrap treating an id missing from the index like an empty slot.
StreamWrap_MissingIsNone(streams_by_id, id, inc_days) ==
  IF IsNone(id) \/ Unwrap(id) \notin DOMAIN streams_by_id THEN Ok(None)
  ELSE LET s == streams_by_id[Unwrap(id)]
       IN Ok(Some(
            [ retain_bytes |-> s.retain_bytes,
              min_start_time_90k |-> IF IsSome(s.range) THEN Some(Unwrap(s.range).start) ELSE None,
              max_end_time_90k |-> IF IsSome(s.range) THEN Some(Unwrap(s.range).end) ELSE None,
              total_duration_90k |-> s.duration,
              total_sample_file_bytes |-> s.sample_file_bytes,
              days |-> IF inc_days THEN Some(s.days) ELSE None ]))

\* Stream::wrap
StreamWrap(streams_by_id, id, inc_days) ==
  IF IsNone(id) THEN Ok(None)
  ELSE IF Unwrap(id) \notin DOMAIN streams_by_id
       THEN Err(<<"missing stream", Unwrap(id)>>)
       ELSE LET s == streams_by_id[Unwrap(id)]
            IN Ok(Some(
                 [ retain_bytes |-> s.retain_bytes,
                   min_start_time_90k |-> IF IsSome(s.range) THEN Some(Unwrap(s.range).start) ELSE None,
                   max_end_time_90k |-> IF IsSome(s.range) THEN Some(Unwrap(s.range).end) ELSE None,
                   total_duration_90k |-> s.duration,
                   total_sample_file_bytes |-> s.sample_file_bytes,
                   days |-> IF inc_days THEN Some(s.days) ELSE None ]))

\* ------------------------------------------------ Camera (json.rs 72-121)
\* Camera::wrap
CameraWrap(c, streams_by_id, inc_days) ==
  LET s0 == StreamWrap(streams_by_id, c.streams[0], inc_days)
      s1 == StreamWrap(streams_by_id, c.streams[1], inc_days)
  IN IF ~s0.ok THEN s0
     ELSE IF ~s1.ok THEN s1
     ELSE Ok([ uuid |-> c.uuid,
               short_name |-> c.short_name,
               description |-> c.description,
               streams |-> [i \in Slots |-> IF i = 0 THEN s0.val ELSE s1.val] ])

\* serialize_streams emitting a key with a null for an empty slot.
SerializeStreams_NullForEmpty(streams) ==
  LET entry(i) == << Entry(StreamTypeAsStr(Unwrap(StreamTypeFromIndex(i))),
                           IF IsSome(streams[i]) THEN SerializeStream(Unwrap(streams[i]))
                           ELSE JNull) >>
  IN JMap(entry(0) \o entry(1))

\* Camera::serialize_streams
SerializeStreams(streams) ==
  LET entry(i) == IF IsSome(streams[i])
                  THEN << Entry(StreamTypeAsStr(Unwrap(StreamTypeFromIndex(i))),
                                SerializeStream(Unwrap(streams[i]))) >>
                  ELSE << >>
  IN JMap(entry(0) \o entry(1))

\* #[derive(Serialize)] for Camera.
SerializeCamera(c) ==
  JMap(<< Entry("uuid", JStr(c.uuid)),
          Entry("shortName", JStr(c.short_name)),
          Entry("description", JStr(c.description)),
          Entry("streams", SerializeStreams(c.streams)) >>)

\* ----------------------------------------------- Session (json.rs 52-68)
\* Session::serialize_csrf
SerializeCsrf(csrf) == JStr(EncodeBase64(csrf))
\* #[derive(Serialize)] for Session.
SerializeSession(s) ==
  JMap(<< Entry("username", JStr(s.username)),
          Entry("csrf", SerializeCsrf(s.csrf)) >>)
\* Serialization of Option<Session> by serde.
SerializeOptSession(o) == IF IsNone(o) THEN JNull ELSE SerializeSession(Unwrap(o))

\* ------------------------------------- Recording (json.rs 184-210)
\* Recording's derive without skip_serializing_if on growing.
SerializeRecording_GrowingNotSkipped(r) ==
  JMap(<< Entry("startTime90k", JInt(r.start_time_90k)),
          Entry("endTime90k", JInt(r.end_time_90k)),
          Entry("sampleFileBytes", JInt(r.sample_file_bytes)),
          Entry("videoSamples", JInt(r.video_samples)),
          Entry("videoSampleEntrySha1", JStr(r.video_sample_entry_sha1)),
          Entry("startId", JInt(r.start_id)),
          Entry("openId", JInt(r.open_id)) >>
       \o (IF IsNone(r.first_uncommitted) THEN << >>
           ELSE << Entry("firstUncommitted", JInt(Unwrap(r.first_uncommitted))) >>)
       \o (IF IsNone(r.end_id) THEN << >>
           ELSE << Entry("endId", JInt(Unwrap(r.end_id))) >>)
       \o << Entry("videoSampleEntryWidth", JInt(r.video_sample_entry_width)),
             Entry("videoSampleEntryHeight", JInt(r.video_sample_entry_height)),
             Entry("growing", JBool(r.growing)) >>)

\* #[derive(Serialize)] for Recording.
SerializeRecording(r) ==
  JMap(<< Entry("startTime90k", JInt(r.start_time_90k)),
          Entry("endTime90k", JInt(r.end_time_90k)),
          Entry("sampleFileBytes", JInt(r.sample_file_bytes)),
          Entry("videoSamples", JInt(r.video_samples)),
          Entry("videoSampleEntrySha1", JStr(r.video_sample_entry_sha1)),
          Entry("startId", JInt(r.start_id)),
          Entry("openId", JInt(r.open_id)) >>
       \o (IF IsNone(r.first_uncommitted) THEN << >>
           ELSE << Entry("firstUncommitted", JInt(Unwrap(r.first_uncommitted))) >>)
       \o (IF IsNone(r.end_id) THEN << >>
           ELSE << Entry("endId", JInt(Unwrap(r.end_id))) >>)
       \o << Entry("videoSampleEntryWidth", JInt(r.video_sample_entry_width)),
             Entry("videoSampleEntryHeight", JInt(r.video_sample_entry_height)) >>
       \o (IF ~r.growing THEN << >>
           ELSE << Entry("growing", JBool(r.growing)) >>))

\* #[derive(Serialize)] for ListRecordings.
SerializeListRecordings(l) ==
  JMap(<< Entry("recordings",
                JSeq([i \in 1..Len(l.recordings) |-> SerializeRecording(l.recordings[i])])) >>)

\* The recordings a ListRecordings may hold.
Recordings ==
  { [ start_time_90k |-> 10, end_time_90k |-> 20, sample_file_bytes |-> 100,
      video_samples |-> 5, video_sample_entry_sha1 |-> "sha1",
      start_id |-> 1, open_id |-> 1,
      first_uncommitted |-> fu, end_id |-> ei,
      video_sample_entry_width |-> 1920, video_sample_entry_height |-> 1080,
      growing |-> g ]
    : fu \in {None, Some(2)}, ei \in {None, Some(3)}, g \in BOOLEAN }
RecordingLists ==
  UNION { [1..n -> Recordings] : n \in 0..MaxRecordings }

\* ------------------------------------------------------------------ state
VARIABLES
  db,            \* the locked database: cameras_by_id and streams_by_id
  include_days,  \* the bool of TopLevel::cameras
  session,       \* TopLevel::session
  pc,            \* position of the serialization of TopLevel
  todo,          \* the camera ids the iterator of serialize_cameras has yet to yield
  sink,          \* what the Serializer has been handed so far, in order
  result,        \* how the serialization of TopLevel ended
  days_in,       \* argument of a call of Stream::serialize_days
  days_out,      \* its output
  list_in,       \* a ListRecordings to serialize
  list_out       \* its output

vars == <<db, include_days, session, pc, todo, sink, result,
          days_in, days_out, list_in, list_out>>
top_vars == <<db, include_days, session, pc, todo, sink, result>>
days_vars == <<days_in, days_out>>
list_vars == <<list_in, list_out>>

TimeZoneName == "America/Los_Angeles"
Event(e, key, val) == [ev |-> e, key |-> key, val |-> val]
Emit(e, key, val) == sink' = Append(sink, Event(e, key, val))

\* ---------------------------------------- TopLevel (json.rs 39-50, 169-182)
\* #[derive(Serialize)] for TopLevel: serialize_struct.
SerializeStructBegin ==
  /\ pc = "begin"
  /\ Emit("begin_struct", "TopLevel", JNull)
  /\ pc' = "time_zone_name"
  /\ UNCHANGED <<db, include_days, session, todo, result, days_vars, list_vars>>

\* Field time_zone_name.
SerializeTimeZoneName ==
  /\ pc = "time_zone_name"
  /\ Emit("field", "timeZoneName", JStr(TimeZoneName))
  /\ pc' = "cameras"
  /\ UNCHANGED <<db, include_days, session, todo, result, days_vars, list_vars>>

\* serialize_cameras iterating the cameras in descending id order.
SerializeCamerasBegin_Descending ==
  /\ pc = "cameras"
  /\ Emit("begin_seq", "cameras", JInt(Cardinality(DOMAIN db.cameras_by_id)))
  /\ todo' = LET ks == SortedSeq(DOMAIN db.cameras_by_id)
             IN [i \in 1..Len(ks) |-> ks[Len(ks) + 1 - i]]
  /\ pc' = "elements"
  /\ UNCHANGED <<db, include_days, session, result, days_vars, list_vars>>

\* TopLevel::serialize_cameras up to the loop: serialize_seq(Some(cs.len())).
SerializeCamerasBegin ==
  /\ pc = "cameras"
  /\ Emit("begin_seq", "cameras", JInt(Cardinality(DOMAIN db.cameras_by_id)))
  /\ todo' = SortedSeq(DOMAIN db.cameras_by_id)
  /\ pc' = "elements"
  /\ UNCHANGED <<db, include_days, session, result, days_vars, list_vars>>

\* One iteration of the loop of serialize_cameras: Camera::wrap(..).unwrap(),
\* then serialize_element.
SerializeCamerasElement ==
  /\ pc = "elements"
  /\ todo # << >>
  /\ LET w == CameraWrap(db.cameras_by_id[Head(todo)], db.streams_by_id, include_days)
     IN IF w.ok
        THEN /\ Emit("element", "", SerializeCamera(w.val))
             /\ todo' = Tail(todo)
             /\ UNCHANGED <<pc, result>>
        ELSE /\ pc' = "panicked"
             /\ result' = "panic"
             /\ UNCHANGED <<sink, todo>>
  /\ UNCHANGED <<db, include_days, session, days_vars, list_vars>>

\* serialize_cameras after the loop: seq.end().
SerializeCamerasEnd ==
  /\ pc = "elements"
  /\ todo = << >>
  /\ Emit("end_seq", "cameras", JNull)
  /\ pc' = "session"
  /\ UNCHANGED <<db, include_days, session, todo, result, days_vars, list_vars>>

\* Field session.
SerializeSessionField ==
  /\ pc = "session"
  /\ Emit("field", "session", SerializeOptSession(session))
  /\ pc' = "end"
  /\ UNCHANGED <<db, include_days, session, todo, result, days_vars, list_vars>>

\* End of the struct: the serialization returns Ok.
SerializeStructEnd ==
  /\ pc = "end"
  /\ Emit("end_struct", "TopLevel", JNull)
  /\ pc' = "done"
  /\ result' = "ok"
  /\ UNCHANGED <<db, include_days, session, todo, days_vars, list_vars>>

IdleTop ==
  /\ db = [cameras_by_id |-> << >>, streams_by_id |-> << >>]
  /\ include_days = FALSE
  /\ session = None
  /\ pc = "idle"
  /\ todo = << >>
  /\ sink = << >>
  /\ result = "none"
IdleDays == days_in = None /\ days_out = None
IdleList == list_in = None /\ list_out = None

Init ==
  /\ db \in { [cameras_by_id |-> cs, streams_by_id |-> ss]
              : cs \in CameraMaps, ss \in StreamIndexes }
  /\ include_days \in BOOLEAN
  /\ session \in Sessions
  /\ pc = "begin"
  /\ todo = << >>
  /\ sink = << >>
  /\ result = "none"
  /\ IdleDays
  /\ IdleList

Next ==
  \/ SerializeStructBegin
  \/ SerializeTimeZoneName
  \/ SerializeCamerasBegin
  \/ SerializeCamerasElement
  \/ SerializeCamerasEnd
  \/ SerializeSessionField
  \/ SerializeStructEnd

Spec == Init /\ [][Next]_vars

\* ------------------------------------- a call of Stream::serialize_days
CallSerializeDays ==
  /\ IsNone(days_out)
  /\ days_out' = Some(SerializeDays(days_in))
  /\ UNCHANGED <<days_in, top_vars, list_vars>>

InitDays ==
  /\ days_in \in {None} \cup { Some(d) : d \in DayMaps }
  /\ days_out = None
  /\ IdleTop
  /\ IdleList

NextDays == CallSerializeDays

SpecDays == InitDays /\ [][NextDays]_vars

\* ------------------------------------ serialization of a ListRecordings
CallSerializeListRecordings ==
  /\ IsNone(list_out)
  /\ IsSome(list_in)
  /\ list_out' = Some(SerializeListRecordings(Unwrap(list_in)))
  /\ UNCHANGED <<list_in, top_vars, days_vars>>

InitList ==
  /\ list_in \in { Some([recordings |-> rs]) : rs \in RecordingLists }
  /\ list_out = None
  /\ IdleTop
  /\ IdleDays

NextList == CallSerializeListRecordings

SpecList == InitList /\ [][NextList]_vars

\* ---------------------------------------------------------- observations
Terminal == pc \in {"done", "panicked"}
\* The camera elements handed to the Serializer so far, in order.
SinkElements ==
  LET es == SelectSeq(sink, LAMBDA e : e.ev = "element")
  IN [i \in 1..Len(es) |-> es[i].val]
RECURSIVE DocEntries(_)
DocEntries(s) ==
  IF s = << >> THEN << >>
  ELSE LET e == Head(s)
       IN (IF e.ev = "field" THEN << Entry(e.key, e.val) >>
           ELSE IF e.ev = "begin_seq" THEN << Entry(e.key, JSeq(SinkElements)) >>
           ELSE << >>) \o DocEntries(Tail(s))
\* The document the sink holds once the struct has ended.
Document == JMap(DocEntries(sink))

\* A populated slot of camera c whose id is not in streams_by_id.
UnresolvedSlot(c, i) ==
  IsSome(c.streams[i]) /\ Unwrap(c.streams[i]) \notin DOMAIN db.streams_by_id
Unresolved(c) == \E i \in Slots : UnresolvedSlot(c, i)
HasUnresolved == \E id \in DOMAIN db.cameras_by_id : Unresolved(db.cameras_by_id[id])
\* The camera whose element is the j-th handed to the Serializer: the one
\* with j - 1 cameras of smaller id.
NthCamera(j) ==
  db.cameras_by_id[CHOOSE id \in DOMAIN db.cameras_by_id :
                     Cardinality({x \in DOMAIN db.cameras_by_id : x < id}) = j - 1]
SlotName(i) == StreamTypeAsStr(Unwrap(StreamTypeFromIndex(i)))
\* The stream objects of an emitted camera element.
StreamObjects(cam) ==
  IF HasKey(cam, "streams") /\ IsMap(Get(cam, "streams"))
  THEN { Entries(Get(cam, "streams"))[i].v : i \in 1..Len(Entries(Get(cam, "streams"))) }
  ELSE {}

\* ------------------------------------------------------------------ claims

\* C1: when some camera has a populated slot whose id is not in streams_by_id,
\* the serialization of TopLevel ends in an error returned to the caller,
\* never in a panic.
C1_MissingStreamIsError ==
  (Terminal /\ HasUnresolved) => result = "err"

\* C2: Camera::wrap fails iff one of the camera's two slots holds an id absent
\* from streams_by_id; an empty slot yields an absent stream, a resolved slot
\* the stream of the index (no default is substituted), and the Camera
\* carries the source camera's uuid, short name and description.
C2_WrapErrIffUnresolved ==
  \A id \in DOMAIN db.cameras_by_id :
    LET c == db.cameras_by_id[id]
        w == CameraWrap(c, db.streams_by_id, include_days)
    IN /\ (~w.ok) <=> Unresolved(c)
       /\ w.ok =>
            /\ w.val.uuid = c.uuid
            /\ w.val.short_name = c.short_name
            /\ w.val.description = c.description
            /\ \A i \in Slots :
                 /\ IsNone(c.streams[i]) <=> IsNone(w.val.streams[i])
                 /\ IsSome(c.streams[i]) =>
                      /\ IsSome(w.val.streams[i])
                      /\ Unwrap(w.val.streams[i]).retain_bytes
                           = db.streams_by_id[Unwrap(c.streams[i])].retain_bytes
C2_Witness ==
  /\ pc = "panicked"
  /\ Len(SinkElements) >= 1
  /\ \E i \in Slots : IsNone(NthCamera(1).streams[i])
  /\ \E i \in Slots : IsSome(NthCamera(1).streams[i])

\* C3: no serialization of TopLevel fails after camera elements have been
\* handed to the encoder: it emits a complete document or nothing.
C3_NoFailureAfterElements ==
  (result \in {"panic", "err"}) => Len(SinkElements) = 0

\* C4: the streams map of every emitted camera has exactly the type names of
\* the camera's populated slots as keys, slot 0 before slot 1, and no entry
\* (not even a null one) for an empty slot.
C4_StreamsKeysArePopulatedSlots ==
  \A j \in 1..Len(SinkElements) :
    LET c == NthCamera(j)
        cam == SinkElements[j]
    IN /\ HasKey(cam, "streams")
       /\ IsMap(Get(cam, "streams"))
       /\ LET m == Get(cam, "streams")
          IN /\ \A i \in Slots : HasKey(m, SlotName(i)) <=> IsSome(c.streams[i])
             /\ Len(Entries(m)) = Cardinality({i \in Slots : IsSome(c.streams[i])})
             /\ \A e \in 1..Len(Entries(m)) : Entries(m)[e].v # JNull
             /\ (Len(Entries(m)) = 2) => Keys(m) = <<SlotName(0), SlotName(1)>>
C4_Witness ==
  \E j \in 1..Len(SinkElements) :
    /\ IsSome(NthCamera(j).streams[0])
    /\ IsNone(NthCamera(j).streams[1])
    /\ Keys(Get(SinkElements[j], "streams")) = <<"main">>

\* C5: an emitted stream object of a stream without a recorded range has
\* neither a minStartTime90k nor a maxEndTime90k key; with a range it has
\* both, equal to the range's start and end.
C5_NoRangeNoKeys ==
  \A j \in 1..Len(SinkElements) : \A i \in Slots :
    IsSome(NthCamera(j).streams[i]) =>
      LET s == db.streams_by_id[Unwrap(NthCamera(j).streams[i])]
          o == Get(Get(SinkElements[j], "streams"), SlotName(i))
      IN IF IsNone(s.range)
         THEN ~HasKey(o, "minStartTime90k") /\ ~HasKey(o, "maxEndTime90k")
         ELSE /\ HasKey(o, "minStartTime90k")
              /\ HasKey(o, "maxEndTime90k")
              /\ Get(o, "minStartTime90k") = JInt(Unwrap(s.range).start)
              /\ Get(o, "maxEndTime90k") = JInt(Unwrap(s.range).end)

\* C6: the document has a session key iff a session was supplied, and then
\* with that session's username and csrf.
C6_SessionKeyIffSupplied ==
  pc = "done" =>
    /\ HasKey(Document, "session") <=> IsSome(session)
    /\ IsSome(session) =>
         /\ Get(Get(Document, "session"), "username") = JStr(Unwrap(session).username)
         /\ Get(Get(Document, "session"), "csrf") = JStr(EncodeBase64(Unwrap(session).csrf))

\* C7: every emitted stream object, of either slot of every camera, has a days
\* key iff include_days is true; when present it is a map, also for a stream
\* whose day map is empty, never a null.
C7_DaysKeyIffIncludeDays ==
  \A j \in 1..Len(SinkElements) :
    /\ Cardinality(StreamObjects(SinkElements[j]))
         = Cardinality({i \in Slots : IsSome(NthCamera(j).streams[i])})
    /\ \A o \in StreamObjects(SinkElements[j]) :
         /\ HasKey(o, "days") <=> include_days
         /\ HasKey(o, "days") => IsMap(Get(o, "days"))
C7_Witness ==
  /\ include_days
  /\ \E j \in 1..Len(SinkElements) :
       /\ Cardinality(StreamObjects(SinkElements[j])) = 2
       /\ \E o \in StreamObjects(SinkElements[j]) :
            HasKey(o, "days") /\ Get(o, "days") = JMap(<< >>)

\* C8: Stream::serialize_days emits one entry per key of the day map, in
\* ascending key order, keyed by the key's string form, with the key's bounds
\* as startTime90k/endTime90k and the value's duration as totalDuration90k.
C8_DaysInKeyOrder ==
  (IsSome(days_out) /\ IsSome(days_in)) =>
    LET d == Unwrap(days_in)
        o == Unwrap(days_out)
    IN /\ IsMap(o)
       /\ Len(Entries(o)) = Cardinality(DOMAIN d)
       /\ \A k \in DOMAIN d :
            /\ HasKey(o, DayKeyAsRef(k))
            /\ Get(o, DayKeyAsRef(k)) =
                 JMap(<< Entry("startTime90k", JInt(DayKeyBounds(k).start)),
                         Entry("endTime90k", JInt(DayKeyBounds(k).end)),
                         Entry("totalDuration90k", JInt(d[k].duration)) >>)
       /\ \A i, j \in 1..Len(Entries(o)) :
            i < j => \E k1, k2 \in DOMAIN d :
                       /\ k1 < k2
                       /\ Entries(o)[i].k = DayKeyAsRef(k1)
                       /\ Entries(o)[j].k = DayKeyAsRef(k2)
C8_Witness ==
  /\ IsSome(days_out)
  /\ IsSome(days_in)
  /\ Cardinality(DOMAIN Unwrap(days_in)) >= 3
  /\ Len(Entries(Unwrap(days_out))) >= 3

\* C9: when every stream reference resolves, the cameras value of the document
\* is a sequence with one element per camera of cameras_by_id, in ascending
\* camera-id order, and no camera id appears as a key.
C9_CamerasInIdOrder ==
  (pc = "done" /\ ~HasUnresolved) =>
    /\ HasKey(Document, "cameras")
    /\ IsSeq(Get(Document, "cameras"))
    /\ LET cs == Elems(Get(Document, "cameras"))
           ids == DOMAIN db.cameras_by_id
       IN /\ Len(cs) = Cardinality(ids)
          /\ \A id \in ids : \E i \in 1..Len(cs) :
               Get(cs[i], "uuid") = JStr(db.cameras_by_id[id].uuid)
          /\ \A i, j \in 1..Len(cs) :
               i < j => \E a, b \in ids :
                          /\ a < b
                          /\ Get(cs[i], "uuid") = JStr(db.cameras_by_id[a].uuid)
                          /\ Get(cs[j], "uuid") = JStr(db.cameras_by_id[b].uuid)
          /\ \A i \in 1..Len(cs) :
               Keys(cs[i]) = <<"uuid", "shortName", "description", "streams">>
C9_Witness ==
  /\ pc = "done"
  /\ Cardinality(DOMAIN db.cameras_by_id) >= 2
  /\ Len(Elems(Get(Document, "cameras"))) >= 2

\* C10: a serialized recording has a growing key iff its growing flag is true
\* (and then the value true), firstUncommitted and endId iff the optional
\* value is set, and every other field always.
RecordingAlways ==
  {"startTime90k", "endTime90k", "sampleFileBytes", "videoSamples",
   "videoSampleEntrySha1", "startId", "openId",
   "videoSampleEntryWidth", "videoSampleEntryHeight"}
C10_SparseRecordingFields ==
  (IsSome(list_out) /\ IsSome(list_in)) =>
    LET rs == Unwrap(list_in).recordings
        o == Unwrap(list_out)
    IN /\ HasKey(o, "recordings")
       /\ IsSeq(Get(o, "recordings"))
       /\ Len(Elems(Get(o, "recordings"))) = Len(rs)
       /\ \A i \in 1..Len(rs) :
            LET r == Elems(Get(o, "recordings"))[i]
            IN /\ HasKey(r, "growing") <=> rs[i].growing
               /\ HasKey(r, "growing") => Get(r, "growing") = JBool(TRUE)
               /\ HasKey(r, "firstUncommitted") <=> IsSome(rs[i].first_uncommitted)
               /\ HasKey(r, "endId") <=> IsSome(rs[i].end_id)
               /\ \A k \in RecordingAlways : HasKey(r, k)
C10_Witness ==
  /\ IsSome(list_out)
  /\ IsSome(list_in)
  /\ \E i, j \in 1..Len(Unwrap(list_in).recordings) :
       /\ Unwrap(list_in).recordings[i].growing
       /\ ~Unwrap(list_in).recordings[j].growing
       /\ IsNone(Unwrap(list_in).recordings[j].end_id)
       /\ HasKey(Elems(Get(Unwrap(list_out), "recordings"))[i], "growing")
       /\ ~HasKey(Elems(Get(Unwrap(list_out), "recordings"))[j], "growing")

====
